---------------------------- MODULE Spec2Model ----------------------------
(***************************************************************************)
(* Idempotent webhook ingestion, OAuth token validation and the deferred   *)
(* callback scheduler of the flowai backend.                               *)
(*                                                                         *)
(*   SpecWebhook : POST /api/v1/retell/call/update (routes/retellWebhook), *)
(*                 the CallIdStorage dedup set and the pg connection pool  *)
(*   SpecSched   : services/callbackScheduler.js                           *)
(*   SpecAuth    : services/oauthService.js validateToken and              *)
(*                 middleware/oauthMiddleware.js                           *)
(***************************************************************************)
EXTENDS Integers, FiniteSets, Sequences, TLC

\* ------------------------------------------------------------------ bounds
\* number of webhook deliveries handled in one behaviour
NumReqs == 2
\* number of distinct call ids the deliveries carry
NumCallIds == 2
\* number of pool clients the queries are spread over (the pool allows 20)
NumConns == 2
\* number of firings of the midnight cleanup in one behaviour
MaxResets == 1
\* hours that can pass between the two clock reads of scheduleNextCleanup
MaxLag == 1

\* number of rows of scheduled_callbacks the scheduler meets
NumRows == 2
\* the clock runs from 0 to MaxTime, in ticks
MaxTime == 4
\* ticks in one scan interval (intervalMs is TicksPerInterval ticks)
TicksPerInterval == 2
\* access tokens the store can hold
NumTokens == 2
\* concurrent requests to the scheduling webhook
NumAuthReqs == 1
\* ticks a token lives: expires_at = now + 24 h
TokenLifetime == 2

Reqs == 1..NumReqs
CallIds == 1..NumCallIds
Conns == 1..NumConns
\* call.call_id is undefined
NoCallId == 0
\* agentCallbackNumber stays null
NoAgent == "null"

VARIABLES
  \* --- retell webhook router, /call/update
  req,               \* per delivery: position in the handler and what it did
  processedCallIds,  \* CallIdStorage.processedCallIds
  resets,            \* how many times the midnight cleanup has fired
  conn,              \* per pool client: open transaction and its pending rows
  committed,         \* rows of calls / scheduled_callbacks that are committed
  cbInserts          \* per call id and cleanup epoch of its mark: how many
                     \* INSERTs into scheduled_callbacks have run

VARIABLES
  \* --- callback scheduler
  now,                  \* the clock
  intervalId,           \* CallbackScheduler.intervalId: is the timer armed
  nextFire,             \* earliest instant the armed timer fires next
  isProcessing,         \* CallbackScheduler.isProcessing
  run,                  \* the processCallbacks invocations that have not returned
  scheduled_callbacks,  \* the table, by row id
  claims,               \* per row: how many scan queries returned it (up to 2)
  placed,               \* per row: the Call Dispatcher placed a call for it
  firings               \* what start() and the interval timer have done so far

VARIABLES
  \* --- OAuth service and middleware, /webhook/scheduling
  oauth_tokens,  \* the table, by access token
  oauth_clients, \* the table, by client_id
  treq,          \* the request to /oauth/token: position in the handler
  areq           \* per webhook request: position in the middleware and answer

VARIABLES
  \* --- CallIdStorage, the midnight cleanup timer
  year,          \* the calendar year: weekday of 1 January, leap or not
  date,          \* the clock, in hours since 1 January 00:00 UTC
  nextMidnight,  \* the instant scheduleNextCleanup last computed, NoTimer if none
  msUntilMidnight, \* the delay it handed to setTimeout, in hours
  armed          \* how many cleanup timeouts are pending

VARIABLES
  \* --- /call/update, step 4: transfer attempts and scheduled callbacks
  event,   \* the fields of the call that step 4 reads
  branch   \* what step 4 did for the event

wvars == <<req, processedCallIds, resets, conn, committed, cbInserts>>
svars == <<now, intervalId, nextFire, isProcessing, run, scheduled_callbacks,
           claims, placed, firings>>
avars == <<oauth_tokens, oauth_clients, treq, areq>>
\* what the handlers of one component leave alone
cvars == <<year, date, nextMidnight, msUntilMidnight, armed>>
bvars == <<event, branch>>
notWebhook == <<svars, avars, cvars, bvars>>
notScheduler == <<wvars, avars, cvars, bvars>>
notAuth == <<wvars, cvars, bvars, intervalId, nextFire, isProcessing, run,
             scheduled_callbacks, claims, placed, firings>>
notCleanup == <<req, conn, committed, cbInserts, svars, avars, bvars>>
notBranch == <<wvars, svars, avars, cvars>>
vars == <<req, processedCallIds, resets, conn, committed, cbInserts,
          now, intervalId, nextFire, isProcessing, run, scheduled_callbacks,
          claims, placed, firings, oauth_tokens, oauth_clients, treq, areq,
          year, date, nextMidnight, msUntilMidnight, armed, event, branch>>

\* ------------------------------------------------------- CallIdStorage
\* the check that never finds an id
hasBeenProcessed_Never(callId) == FALSE

hasBeenProcessed(callId) == callId \in processedCallIds

\* the mark that adds nothing
markAsProcessed_Drop(callId) == processedCallIds

markAsProcessed(callId) == processedCallIds \cup {callId}

clearAll == {}

\* ------------------------------------------------------- db/connection
\* pool.query(text) runs one statement on whichever client of the pool is
\* free; a transaction is a property of the client that ran BEGIN.
ExecBegin(c) == [conn EXCEPT ![c].tx = TRUE]

\* rows written by a client inside BEGIN stay pending on that client,
\* a client outside a transaction autocommits
WriteConn(c, row) ==
  IF conn[c].tx THEN [conn EXCEPT ![c].buf = @ \cup {row}] ELSE conn

WriteCommitted(c, row) ==
  IF conn[c].tx THEN committed ELSE committed \cup {row}

CommitConn(c) == [conn EXCEPT ![c] = [tx |-> FALSE, buf |-> {}]]

CommitCommitted(c) == committed \cup conn[c].buf

RollbackConn(c) == [conn EXCEPT ![c] = [tx |-> FALSE, buf |-> {}]]

\* ------------------------------------------------------- /call/update
\* middleware registered on the route before the handler
CallUpdateRequiresOAuth == FALSE

\* a table with a number the scheduler has no profile for
agentNumbers_WithPatient ==
  {"+16018846979", "+14088728200", "+18330165712"}
\* line 897: the numbers of the two agents
agentNumbers == {"+16018846979", "+14088728200"}
PhoneNumbers == agentNumbers \cup {"+18330165712"}

\* the agent number with from_number taking precedence
CallbackAgentNumber_FromFirst(to, from) ==
  IF from \in agentNumbers THEN from
  ELSE IF to \in agentNumbers THEN to
  ELSE NoAgent

\* lines 897-904: to_number first, then from_number
CallbackAgentNumber(to, from) ==
  IF to \in agentNumbers THEN to
  ELSE IF from \in agentNumbers THEN from
  ELSE NoAgent

\* lines 891-1002: which deferred action the event leads to
CallbackBranch(transfer, time, patient, to, from) ==
  IF ~(time /\ patient) THEN "none"
  ELSE IF CallbackAgentNumber(to, from) = NoAgent THEN "none"
  ELSE IF transfer THEN "transfer"
  ELSE "callback"

IdleReq ==
  [pc |-> "idle", call_id |-> NoCallId, accepted |-> FALSE, emailed |-> FALSE,
   dup |-> FALSE, marked |-> FALSE, epoch |-> 0, noted |-> FALSE,
   cbAgent |-> NoAgent, wrote |-> {}, res |-> 0, msg |-> ""]

\* the answer is sent; the record keeps what the delivery did
Respond(r, code, text) ==
  [req[r] EXCEPT !.pc = "done", !.res = code, !.msg = text,
                 !.epoch = 0, !.noted = FALSE, !.cbAgent = NoAgent]

\* a row is known by its table and the delivery that wrote it
CallsRow(r) == [table |-> "calls", req |-> r]

CallbackRow(r) == [table |-> "scheduled_callbacks", req |-> r]

InitCallUpdate ==
  /\ req = [r \in Reqs |-> IdleReq]
  /\ processedCallIds = {}
  /\ resets = 0
  /\ conn = [c \in Conns |-> [tx |-> FALSE, buf |-> {}]]
  /\ committed = {}
  /\ cbInserts = [i \in CallIds |-> [e \in 0..MaxResets |-> 0]]

\* lines 624-658: the request reaches the handler; event filter; the
\* recipient is read from call.retell_llm_dynamic_variables and the mail is
\* sent; only then call and call_id are checked; BEGIN is issued
Arrive(r) ==
  /\ req[r].pc = "idle"
  /\ \E bearer \in {"none", "valid"}, analyzedEvent \in BOOLEAN,
        hasVars \in BOOLEAN, cid \in CallIds \cup {NoCallId} :
       /\ CallUpdateRequiresOAuth => bearer = "valid"
       /\ LET rq == [req EXCEPT ![r].accepted =
                       CallUpdateRequiresOAuth /\ bearer = "valid"] IN
          req' = IF ~analyzedEvent
                   THEN [rq EXCEPT ![r].pc = "done", ![r].res = 200,
                                   ![r].msg = "acknowledged"]
                 ELSE IF ~hasVars
                   \* TypeError at line 637, outer catch, errorHandler
                   THEN [rq EXCEPT ![r].pc = "done", ![r].res = 500,
                                   ![r].msg = "error"]
                 ELSE IF cid = NoCallId
                   THEN [rq EXCEPT ![r].pc = "done", ![r].res = 400,
                                   ![r].msg = "Missing call data or call_id",
                                   ![r].emailed = TRUE]
                 ELSE [rq EXCEPT ![r].pc = "begin", ![r].call_id = cid,
                                 ![r].emailed = TRUE]
  /\ UNCHANGED <<processedCallIds, resets, conn, committed, cbInserts>>
  /\ UNCHANGED notWebhook

Begin_MarkAfterInsert(r) ==
  /\ req[r].pc = "begin"
  /\ \/ \E c \in Conns :
          /\ conn' = ExecBegin(c)
          /\ IF hasBeenProcessed(req[r].call_id)
               THEN req' = [req EXCEPT ![r].pc = "dupRollback",
                                       ![r].dup = TRUE]
               ELSE req' = [req EXCEPT ![r].pc = "insCall",
                                       ![r].marked = TRUE,
                                       ![r].epoch = resets]
          /\ UNCHANGED processedCallIds
     \/ /\ req' = [req EXCEPT ![r].pc = "catchRollback"]
        /\ UNCHANGED <<conn, processedCallIds>>
  /\ UNCHANGED <<resets, committed, cbInserts>>
  /\ UNCHANGED notWebhook

\* lines 658-679: BEGIN has run; idempotency check and mark, no await between
Begin(r) ==
  /\ req[r].pc = "begin"
  /\ \/ \E c \in Conns :
          /\ conn' = ExecBegin(c)
          /\ IF hasBeenProcessed(req[r].call_id)
               THEN /\ req' = [req EXCEPT ![r].pc = "dupRollback",
                                          ![r].dup = TRUE]
                    /\ UNCHANGED processedCallIds
               ELSE /\ processedCallIds' = markAsProcessed(req[r].call_id)
                    /\ req' = [req EXCEPT ![r].pc = "insCall",
                                          ![r].marked = TRUE,
                                          ![r].epoch = resets]
     \/ /\ req' = [req EXCEPT ![r].pc = "catchRollback"]
        /\ UNCHANGED <<conn, processedCallIds>>
  /\ UNCHANGED <<resets, committed, cbInserts>>
  /\ UNCHANGED notWebhook

\* lines 661-669: ROLLBACK, then the 'already processed' answer
DupRollback(r) ==
  /\ req[r].pc = "dupRollback"
  /\ \/ \E c \in Conns :
          /\ conn' = RollbackConn(c)
          /\ req' = [req EXCEPT ![r] =
                            Respond(r, 200, "Call already processed")]
     \/ /\ req' = [req EXCEPT ![r].pc = "catchRollback"]
        /\ UNCHANGED conn
  /\ UNCHANGED <<processedCallIds, resets, committed, cbInserts>>
  /\ UNCHANGED notWebhook

\* lines 674-680: INSERT INTO calls
InsertCall(r) ==
  /\ req[r].pc = "insCall"
  /\ \/ \E c \in Conns :
          /\ conn' = WriteConn(c, CallsRow(r))
          /\ committed' = WriteCommitted(c, CallsRow(r))
          /\ req' = [req EXCEPT ![r].pc = "selAgent",
                                ![r].wrote = @ \cup {"calls"}]
     \/ /\ req' = [req EXCEPT ![r].pc = "catchRollback"]
        /\ UNCHANGED <<conn, committed>>
  /\ UNCHANGED <<processedCallIds, resets, cbInserts>>
  /\ UNCHANGED notWebhook

\* lines 786-1005 up to the next statement sent to the database: the intake
\* DocumentReference (errors caught), then the callback branch with the
\* transfer note (errors caught)
AfterSelect(r, intake, transfer, time, patient, to, from) ==
  LET b == CallbackBranch(transfer, time, patient, to, from) IN
  [req EXCEPT ![r].noted = intake \/ b = "transfer",
              ![r].cbAgent = IF b = "callback"
                               THEN CallbackAgentNumber(to, from)
                               ELSE NoAgent,
              ![r].pc = IF b = "callback" THEN "insCallback" ELSE "commit"]

\* lines 682-968: SELECT on agents has run
SelectAgent(r) ==
  /\ req[r].pc = "selAgent"
  /\ \/ \E intake \in BOOLEAN, transfer \in BOOLEAN,
          time \in BOOLEAN, patient \in BOOLEAN,
          to \in PhoneNumbers, from \in PhoneNumbers :
          \* the numbers are read only inside the branch of line 895
          /\ ~(time /\ patient) => to = "+18330165712" /\ from = to
          \* line 789: no DocumentReference without a patient_id
          /\ ~patient => ~intake
          /\ req' = AfterSelect(r, intake, transfer, time, patient,
                                to, from)
     \/ req' = [req EXCEPT ![r].pc = "catchRollback"]
  /\ UNCHANGED <<processedCallIds, resets, conn, committed, cbInserts>>
  /\ UNCHANGED notWebhook

\* lines 969-1000: INSERT INTO scheduled_callbacks; an error is logged only
InsertCallback(r) ==
  /\ req[r].pc = "insCallback"
  /\ \/ \E c \in Conns :
          /\ conn' = WriteConn(c, CallbackRow(r))
          /\ committed' = WriteCommitted(c, CallbackRow(r))
          /\ cbInserts' = [cbInserts EXCEPT
                             ![req[r].call_id][req[r].epoch] = @ + 1]
          /\ req' = [req EXCEPT ![r].pc = "commit",
                                ![r].wrote = @ \cup {"scheduled_callbacks"}]
     \/ /\ req' = [req EXCEPT ![r].pc = "commit"]
        /\ UNCHANGED <<conn, committed, cbInserts>>
  /\ UNCHANGED <<processedCallIds, resets>>
  /\ UNCHANGED notWebhook

\* lines 1004-1020: COMMIT, then the 200 answer (a call_analyzed event
\* carries call.call_analysis, which the summary log line reads)
Commit(r) ==
  /\ req[r].pc = "commit"
  /\ \/ \E c \in Conns :
          /\ conn' = CommitConn(c)
          /\ committed' = CommitCommitted(c)
          /\ req' = [req EXCEPT ![r] =
                       Respond(r, 200,
                               "Call analyzed event processed successfully")]
     \/ /\ req' = [req EXCEPT ![r].pc = "catchRollback"]
        /\ UNCHANGED <<conn, committed>>
  /\ UNCHANGED <<processedCallIds, resets, cbInserts>>
  /\ UNCHANGED notWebhook

\* lines 1021-1041: ROLLBACK and the 500 answer; if ROLLBACK throws too the
\* outer catch hands over to the error handler, which answers 500
CatchRollback(r) ==
  /\ req[r].pc = "catchRollback"
  /\ \/ \E c \in Conns :
          /\ conn' = RollbackConn(c)
          /\ req' = [req EXCEPT ![r] =
                            Respond(r, 500, "Failed to process call data")]
     \/ /\ req' = [req EXCEPT ![r] = Respond(r, 500, "error")]
        /\ UNCHANGED conn
  /\ UNCHANGED <<processedCallIds, resets, committed, cbInserts>>
  /\ UNCHANGED notWebhook

\* callIdStorage.js lines 122-125: the cleanup timer fires
MidnightCleanup ==
  /\ resets < MaxResets
  /\ processedCallIds' = clearAll
  /\ resets' = resets + 1
  /\ UNCHANGED <<req, conn, committed, cbInserts>>
  /\ UNCHANGED notWebhook

NextWebhook ==
  \/ \E r \in Reqs : Arrive(r)
  \/ \E r \in Reqs : Begin(r)
  \/ \E r \in Reqs : DupRollback(r)
  \/ \E r \in Reqs : InsertCall(r)
  \/ \E r \in Reqs : SelectAgent(r)
  \/ \E r \in Reqs : InsertCallback(r)
  \/ \E r \in Reqs : Commit(r)
  \/ \E r \in Reqs : CatchRollback(r)
  \/ MidnightCleanup

\* --------------------------------------------------- callbackScheduler
RowIds == 1..NumRows
Times == 0..MaxTime

\* a row as the scheduler sees it; its agent_callback_number is drawn when
\* the row is processed, from the numbers the webhook stores
AbsentRow ==
  [status |-> "absent", scheduled_time |-> 0, error_message |-> ""]

\* what the table keeps of an error text: that there is one
Stored(message) == IF message = "" THEN "" ELSE "message"

\* part_007 lines 344-358: which Retell call the agent number selects
CallProfile(agent_callback_number) ==
  IF agent_callback_number = "+16018846979" THEN "scheduling"
  ELSE IF agent_callback_number = "+14088728200" THEN "intake"
  ELSE "unknown"

\* the guard that never sees a cycle in progress
CycleInProgress_Never == FALSE

\* part_007 lines 203-206: the guard of processCallbacks
CycleInProgress == isProcessing

\* the rows in the order the query returns them: scheduled_time ascending,
\* rows of equal time in either order
SortedBatches(S) ==
  {b \in [1..Cardinality(S) -> S] :
     /\ \A i \in DOMAIN b : \A j \in DOMAIN b : i # j => b[i] # b[j]
     /\ \A i \in DOMAIN b : \A j \in DOMAIN b :
          i < j => scheduled_callbacks[b[i]].scheduled_time
                     <= scheduled_callbacks[b[j]].scheduled_time}

\* the window that reaches back to every earlier time
InWindow_Overdue(i, windowStart) ==
  /\ scheduled_callbacks[i].status = "pending"
  /\ scheduled_callbacks[i].scheduled_time < windowStart + TicksPerInterval

\* the window that includes its end
InWindow_Closed(i, windowStart) ==
  /\ scheduled_callbacks[i].status = "pending"
  /\ scheduled_callbacks[i].scheduled_time >= windowStart
  /\ scheduled_callbacks[i].scheduled_time <= windowStart + TicksPerInterval

\* the window that ends one tick early
InWindow_Short(i, windowStart) ==
  /\ scheduled_callbacks[i].status = "pending"
  /\ scheduled_callbacks[i].scheduled_time >= windowStart
  /\ scheduled_callbacks[i].scheduled_time < windowStart + TicksPerInterval - 1

\* part_007 lines 220-227: the WHERE clause, for the window that starts at
\* windowStart
InWindow(i, windowStart) ==
  /\ scheduled_callbacks[i].status = "pending"
  /\ scheduled_callbacks[i].scheduled_time >= windowStart
  /\ scheduled_callbacks[i].scheduled_time < windowStart + TicksPerInterval

RemoveAt(q, k) ==
  [i \in 1..(Len(q) - 1) |-> IF i < k THEN q[i] ELSE q[i + 1]]

\* the history of start() and of the timer: how many times start() ran (up
\* to 2), whether every firing came exactly one interval after the one
\* before and entered a cycle, the instants at which a cycle was entered, the
\* instants at which the guard skipped a firing; not kept after a restart
NoFirings == [starts |-> 0, regular |-> TRUE, scans |-> {}, skipped |-> {}]
Restarted == [starts |-> 2, regular |-> FALSE, scans |-> {}, skipped |-> {}]
\* start() has called processCallbacks
NoteStart ==
  IF firings.starts > 0 THEN Restarted
  ELSE [starts |-> 1,
        regular |-> ~CycleInProgress,
        scans |-> IF CycleInProgress THEN {} ELSE {now},
        skipped |-> {}]
\* the interval timer has called processCallbacks
NoteFiring ==
  IF firings.starts > 1 THEN Restarted
  ELSE [firings EXCEPT
          !.regular = @ /\ now = nextFire /\ ~CycleInProgress,
          !.scans = IF CycleInProgress THEN @ ELSE @ \cup {now},
          !.skipped = IF CycleInProgress THEN @ \cup {now} ELSE @]

InitScheduler ==
  /\ now = 0
  /\ intervalId = FALSE
  /\ nextFire = 0
  /\ isProcessing = FALSE
  /\ run = <<>>
  /\ scheduled_callbacks = [i \in RowIds |-> AbsentRow]
  /\ claims = [i \in RowIds |-> 0]
  /\ placed = [i \in RowIds |-> FALSE]
  /\ firings = NoFirings

\* part_007 lines 201-217: processCallbacks up to its first await: the guard,
\* the flag, the window, the query sent
EnterProcessCallbacks ==
  IF CycleInProgress
    THEN UNCHANGED <<isProcessing, run>>
    ELSE /\ isProcessing' = TRUE
         /\ run' = Append(run, [pc |-> "query", windowStart |-> now,
                                batch |-> <<>>, error |-> ""])

\* part_007 lines 168-185: start()
Start ==
  /\ ~intervalId
  /\ EnterProcessCallbacks
  /\ intervalId' = TRUE
  /\ nextFire' = now + TicksPerInterval
  /\ UNCHANGED <<now, scheduled_callbacks, claims, placed>>
  /\ firings' = NoteStart
  /\ UNCHANGED notScheduler

\* the stop() that also drops the cycle in flight
Stop_CancelsCycle ==
  /\ intervalId
  /\ intervalId' = FALSE
  /\ nextFire' = 0
  /\ run' = <<>>
  /\ isProcessing' = FALSE
  /\ UNCHANGED <<now, scheduled_callbacks, claims, placed>>
  /\ UNCHANGED firings
  /\ UNCHANGED notScheduler

\* part_007 lines 190-196: stop()
Stop ==
  /\ intervalId
  /\ intervalId' = FALSE
  /\ nextFire' = 0
  /\ UNCHANGED <<now, isProcessing, run, scheduled_callbacks, claims, placed>>
  /\ UNCHANGED firings
  /\ UNCHANGED notScheduler

\* part_007 lines 182-184: the interval timer fires, one interval or more
\* after it last fired
TimerFires ==
  /\ intervalId
  /\ now >= nextFire
  /\ EnterProcessCallbacks
  /\ nextFire' = now + TicksPerInterval
  /\ UNCHANGED <<now, intervalId, scheduled_callbacks, claims, placed>>
  /\ firings' = NoteFiring
  /\ UNCHANGED notScheduler

\* the invocation that returns with the guard still set
Returned_GuardKept(k) ==
  /\ run' = RemoveAt(run, k)
  /\ UNCHANGED isProcessing

\* part_007 lines 247-249: finally; the invocation returns
Returned(k) ==
  /\ run' = RemoveAt(run, k)
  /\ isProcessing' = FALSE

\* part_007 lines 229-236: the SELECT returns the pending rows of the window,
\* or throws
QueryReturns(k) ==
  /\ k \in DOMAIN run
  /\ run[k].pc = "query"
  /\ LET found == {i \in RowIds : InWindow(i, run[k].windowStart)} IN
     \/ /\ found = {}
        /\ Returned(k)
        /\ UNCHANGED claims
     \/ /\ found # {}
        /\ \E b \in SortedBatches(found) :
             run' = [run EXCEPT ![k].pc = "row", ![k].batch = b]
        /\ claims' = [i \in RowIds |->
                        IF i \in found /\ claims[i] < 2
                          THEN claims[i] + 1 ELSE claims[i]]
        /\ UNCHANGED isProcessing
     \/ /\ Returned(k)
        /\ UNCHANGED claims
  /\ UNCHANGED <<now, intervalId, nextFire, scheduled_callbacks, placed>>
  /\ UNCHANGED firings
  /\ UNCHANGED notScheduler

\* part_007 lines 256-358: processSingleCallback up to the status update:
\* the lookups, the call profile, the call
DispatchRow(k) ==
  /\ k \in DOMAIN run
  /\ run[k].pc = "row"
  /\ \E agent_callback_number \in agentNumbers :
     LET id == run[k].batch[1]
         profile == CallProfile(agent_callback_number)
     IN
     \/ /\ run' = [run EXCEPT ![k].pc = "updateFailed",
                              ![k].error = "Patient not found"]
        /\ UNCHANGED placed
     \/ /\ profile = "unknown"
        /\ run' = [run EXCEPT ![k].pc = "updateFailed",
                              ![k].error = "Unknown agent callback number"]
        /\ UNCHANGED placed
     \/ /\ profile # "unknown"
        /\ run' = [run EXCEPT ![k].pc = "updateFailed",
                              ![k].error = "call not created"]
        /\ UNCHANGED placed
     \/ /\ profile # "unknown"
        /\ run' = [run EXCEPT ![k].pc = "updateCompleted"]
        /\ placed' = [placed EXCEPT ![id] = TRUE]
  /\ UNCHANGED <<now, intervalId, nextFire, isProcessing, scheduled_callbacks,
                 claims>>
  /\ UNCHANGED firings
  /\ UNCHANGED notScheduler

\* part_007 lines 239-241: the loop goes to the next row, or ends
RowDone(k) ==
  IF Len(run[k].batch) = 1
    THEN Returned(k)
    ELSE /\ run' = [run EXCEPT ![k].pc = "row", ![k].batch = Tail(@),
                               ![k].error = ""]
         /\ UNCHANGED isProcessing

\* part_007 lines 360-374: UPDATE ... SET status = 'completed'; if it throws,
\* the catch of processSingleCallback takes over
UpdateCompleted(k) ==
  /\ k \in DOMAIN run
  /\ run[k].pc = "updateCompleted"
  /\ \/ /\ scheduled_callbacks' =
             [scheduled_callbacks EXCEPT ![run[k].batch[1]].status =
                "completed"]
        /\ RowDone(k)
     \/ /\ run' = [run EXCEPT ![k].pc = "updateFailed",
                              ![k].error = "update failed"]
        /\ UNCHANGED <<scheduled_callbacks, isProcessing>>
  /\ UNCHANGED <<now, intervalId, nextFire, claims, placed>>
  /\ UNCHANGED firings
  /\ UNCHANGED notScheduler

\* part_007 lines 375-391: UPDATE ... SET status = 'failed'; if it throws,
\* the error leaves processSingleCallback and ends the loop (lines 242-249)
UpdateFailed(k) ==
  /\ k \in DOMAIN run
  /\ run[k].pc = "updateFailed"
  /\ \/ /\ scheduled_callbacks' =
             [scheduled_callbacks EXCEPT
                ![run[k].batch[1]].status = "failed",
                ![run[k].batch[1]].error_message = Stored(run[k].error)]
        /\ RowDone(k)
     \/ /\ Returned(k)
        /\ UNCHANGED scheduled_callbacks
  /\ UNCHANGED <<now, intervalId, nextFire, claims, placed>>
  /\ UNCHANGED firings
  /\ UNCHANGED notScheduler

\* part_014 lines 972-985: a webhook stores a callback request
StoreCallback(i) ==
  /\ scheduled_callbacks[i].status = "absent"
  /\ \E t \in Times :
       scheduled_callbacks' =
         [scheduled_callbacks EXCEPT
            ![i] = [status |-> "pending", scheduled_time |-> t,
                    error_message |-> ""]]
  /\ UNCHANGED <<now, intervalId, nextFire, isProcessing, run, claims, placed>>
  /\ UNCHANGED firings
  /\ UNCHANGED notScheduler

\* time passes
Tick ==
  /\ now < MaxTime
  /\ now' = now + 1
  /\ UNCHANGED <<intervalId, nextFire, isProcessing, run, scheduled_callbacks,
                 claims, placed>>
  /\ UNCHANGED firings
  /\ UNCHANGED notScheduler

NextSched ==
  \/ Start
  \/ Stop
  \/ TimerFires
  \/ \E k \in 1..2 : QueryReturns(k)
  \/ \E k \in 1..2 : DispatchRow(k)
  \/ \E k \in 1..2 : UpdateCompleted(k)
  \/ \E k \in 1..2 : UpdateFailed(k)
  \/ \E i \in RowIds : StoreCallback(i)
  \/ Tick

\* ------------------------------------- OAuth service and OAuth middleware
TokenIds == 1..NumTokens
AuthReqs == 1..NumAuthReqs
\* the token strings that match uuidRegex, one per row the table can hold
UUIDs == {<<"uuid", t>> : t \in TokenIds}
\* the Authorization headers a caller can send: none, another scheme, the
\* Bearer scheme with an empty, blank, malformed or well-formed token
NoHeader == <<>>
Headers ==
  {NoHeader, <<"Basic ", <<"x">>>>, <<"Bearer ", <<>>>>, <<"Bearer ", <<" ">>>>,
   <<"Bearer ", <<"not-a-uuid">>>>}
  \cup {<<"Bearer ", u>> : u \in UUIDs}
\* validateToken returned null
NoTokenInfo == "null"

\* authHeader.startsWith('Bearer ')
StartsWithBearer(authHeader) == authHeader[1] = "Bearer "
\* authHeader.substring(7)
BearerToken(authHeader) == authHeader[2]
\* !token || token.trim() === ''
IsBlank(token) == token = <<>> \/ token = <<" ">>
\* uuidRegex.test(token)
IsUUID(token) == token \in UUIDs
\* the tokens that are not yet past their expires_at, its instant included
TokenRows_Inclusive(token) ==
  {t \in TokenIds : /\ token = <<"uuid", t>>
                    /\ oauth_tokens[t].issued
                    /\ oauth_tokens[t].expires_at >= now}

\* the query that also asks for an active client
TokenRows_ActiveClient(token) ==
  {t \in TokenIds : /\ token = <<"uuid", t>>
                    /\ oauth_tokens[t].issued
                    /\ oauth_tokens[t].expires_at > now
                    /\ oauth_clients["cli_redox"].is_active}

\* WHERE t.access_token = $1 AND t.expires_at > NOW()
TokenRows(token) ==
  {t \in TokenIds : /\ token = <<"uuid", t>>
                    /\ oauth_tokens[t].issued
                    /\ oauth_tokens[t].expires_at > now}

\* what validateToken returns from its catch block
OnStoreError_Row(row) == row

\* part_007 lines 120-124: the catch block of validateToken
OnStoreError(row) == NoTokenInfo

IdleAuthReq ==
  [pc |-> "idle", header |-> NoHeader, threw |-> "no", row |-> NoTokenInfo,
   tokenInfo |-> "unset", res |-> 0, error |-> "", processed |-> FALSE]

\* the middleware that calls next() whatever validateToken returned
AfterValidate_Next(a, threw, tokenInfo) ==
  [areq[a] EXCEPT !.pc = "handler", !.threw = threw,
                  !.row = NoTokenInfo, !.tokenInfo = tokenInfo]

\* oauthMiddleware lines 58-84: after validateToken returned
AfterValidate(a, threw, tokenInfo) ==
  IF tokenInfo = NoTokenInfo
  THEN [areq[a] EXCEPT !.pc = "done", !.threw = threw, !.tokenInfo = tokenInfo,
                       !.row = NoTokenInfo,
                       !.res = 401, !.error = "invalid_token"]
  ELSE [areq[a] EXCEPT !.pc = "handler", !.threw = threw,
                       !.row = NoTokenInfo, !.tokenInfo = tokenInfo]

\* crypto.createHash('sha256').update(clientSecret).digest('hex')
Sha256(clientSecret) == <<"sha256", clientSecret>>
\* the client createRedoxClient.js registers
ClientIds == {"cli_redox"}
\* what a caller can send as grant_type, client_id and client_secret; "" is
\* a missing parameter
GrantTypes == {"", "client_credentials", "password"}
RequestClientIds == {"", "cli_redox", "cli_other"}
ClientSecrets == {"", "sk_live", "sk_wrong"}
\* no access_token in the response
NoAccessToken == <<>>

\* WHERE client_id = $1 AND client_secret_hash = $2 AND is_active = true
ClientRows(clientId, clientSecretHash) ==
  {c \in ClientIds : /\ c = clientId
                     /\ oauth_clients[c].client_secret_hash = clientSecretHash
                     /\ oauth_clients[c].is_active}

\* an expiry that is already reached when the token is issued
ExpiresAt_Now(t) == t

\* part_007 line 50: expiresAt = new Date(Date.now() + 24 * 60 * 60 * 1000)
ExpiresAt(t) == t + TokenLifetime

\* the access_token values the column default can generate for a new row
FreshTokens == {t \in TokenIds : ~oauth_tokens[t].issued}

IdleTokenReq ==
  [pc |-> "idle", client_id |-> "", client_secret |-> "", expiresAt |-> 0,
   res |-> 0, error |-> "", access_token |-> NoAccessToken]

\* res.status(...).json(...) of /oauth/token
TokenRespond(code, text, token) ==
  [IdleTokenReq EXCEPT !.pc = "done", !.res = code, !.error = text,
                       !.access_token = token]

InitOAuth ==
  /\ oauth_tokens = [t \in TokenIds |->
                       [issued |-> FALSE, expires_at |-> 0, last_used_at |-> 0]]
  /\ oauth_clients = [c \in ClientIds |->
                        [client_secret_hash |-> Sha256("sk_live"),
                         is_active |-> TRUE]]
  /\ treq = IdleTokenReq
  /\ areq = [a \in AuthReqs |-> IdleAuthReq]

\* an administrator sets or clears is_active of a client in the store
SetClientActive(c) ==
  /\ oauth_clients' = [oauth_clients EXCEPT ![c].is_active = ~@]
  /\ UNCHANGED <<oauth_tokens, treq, areq, now>>
  /\ UNCHANGED notAuth

\* /oauth/token up to the SELECT of validateClient
TokenRequest ==
  /\ treq.pc \in {"idle", "done"}
  /\ \E grant_type \in GrantTypes, client_id \in RequestClientIds,
        client_secret \in ClientSecrets :
       treq' =
         IF grant_type = ""
         THEN TokenRespond(400, "invalid_request", NoAccessToken)
         ELSE IF grant_type # "client_credentials"
         THEN TokenRespond(400, "unsupported_grant_type", NoAccessToken)
         ELSE IF client_id = "" \/ client_secret = ""
         THEN TokenRespond(400, "invalid_request", NoAccessToken)
         ELSE [IdleTokenReq EXCEPT !.pc = "validateClient",
                                   !.client_id = client_id,
                                   !.client_secret = client_secret]
  /\ UNCHANGED <<oauth_tokens, oauth_clients, areq, now>>
  /\ UNCHANGED notAuth

\* the SELECT of validateClient returns or throws; generateToken computes
\* the expiry and sends the INSERT
ValidateClient ==
  /\ treq.pc = "validateClient"
  /\ \/ treq' =
          IF ClientRows(treq.client_id, Sha256(treq.client_secret)) = {}
          THEN TokenRespond(401, "invalid_client", NoAccessToken)
          ELSE [treq EXCEPT !.pc = "insert", !.expiresAt = ExpiresAt(now)]
     \/ treq' = TokenRespond(500, "server_error", NoAccessToken)
  /\ UNCHANGED <<oauth_tokens, oauth_clients, areq, now>>
  /\ UNCHANGED notAuth

\* the INSERT of generateToken returns the generated access_token, or throws
GenerateToken ==
  /\ treq.pc = "insert"
  /\ \/ \E t \in FreshTokens :
          /\ oauth_tokens' = [oauth_tokens EXCEPT ![t] =
               [issued |-> TRUE, expires_at |-> treq.expiresAt,
                last_used_at |-> 0]]
          /\ treq' = TokenRespond(200, "", <<"uuid", t>>)
     \/ /\ treq' = TokenRespond(500, "server_error", NoAccessToken)
        /\ UNCHANGED oauth_tokens
  /\ UNCHANGED <<oauth_clients, areq, now>>
  /\ UNCHANGED notAuth

\* oauthMiddleware up to the SELECT of validateToken
OAuthMiddleware(a) ==
  /\ areq[a].pc \in {"idle", "done"}
  /\ \E authHeader \in Headers :
       LET r == [IdleAuthReq EXCEPT !.header = authHeader] IN
       areq' = [areq EXCEPT ![a] =
         IF authHeader = NoHeader
         THEN [r EXCEPT !.pc = "done", !.res = 401, !.error = "missing_token"]
         ELSE IF ~StartsWithBearer(authHeader)
         THEN [r EXCEPT !.pc = "done", !.res = 401, !.error = "invalid_request"]
         ELSE IF IsBlank(BearerToken(authHeader))
         THEN [r EXCEPT !.pc = "done", !.res = 401, !.error = "invalid_token"]
         ELSE IF ~IsUUID(BearerToken(authHeader))
         THEN [r EXCEPT !.pc = "done", !.res = 401, !.error = "invalid_token",
                        !.tokenInfo = NoTokenInfo]
         ELSE [r EXCEPT !.pc = "select"]]
  /\ UNCHANGED <<oauth_tokens, oauth_clients, treq, now>>
  /\ UNCHANGED notAuth

\* the SELECT of validateToken returns or throws
SelectToken(a) ==
  /\ areq[a].pc = "select"
  /\ \/ LET rows == TokenRows(BearerToken(areq[a].header)) IN
        areq' = [areq EXCEPT ![a] =
          IF rows = {}
          THEN AfterValidate(a, "no", NoTokenInfo)
          ELSE [areq[a] EXCEPT !.pc = "update", !.row = "redox"]]
     \/ areq' = [areq EXCEPT ![a] =
          AfterValidate(a, "select", OnStoreError(areq[a].row))]
  /\ UNCHANGED <<oauth_tokens, oauth_clients, treq, now>>
  /\ UNCHANGED notAuth

\* the UPDATE of last_used_at returns or throws
UpdateLastUsed(a) ==
  /\ areq[a].pc = "update"
  /\ \/ /\ oauth_tokens' =
             [t \in TokenIds |->
                IF BearerToken(areq[a].header) = <<"uuid", t>>
                THEN [oauth_tokens[t] EXCEPT !.last_used_at = now]
                ELSE oauth_tokens[t]]
        /\ areq' = [areq EXCEPT ![a] = AfterValidate(a, "no", areq[a].row)]
     \/ /\ areq' = [areq EXCEPT ![a] =
             AfterValidate(a, "update", OnStoreError(areq[a].row))]
        /\ UNCHANGED oauth_tokens
  /\ UNCHANGED <<oauth_clients, treq, now>>
  /\ UNCHANGED notAuth

\* redoxWebhook.js: the handler of /webhook/scheduling
SchedulingWebhook(a) ==
  /\ areq[a].pc = "handler"
  /\ \E validBundle \in BOOLEAN, failed \in BOOLEAN :
       areq' = [areq EXCEPT ![a] =
         [areq[a] EXCEPT !.pc = "done", !.processed = validBundle,
                         !.res = IF ~validBundle THEN 400
                                 ELSE IF failed THEN 500 ELSE 200]]
  /\ UNCHANGED <<oauth_tokens, oauth_clients, treq, now>>
  /\ UNCHANGED notAuth

NextAuth ==
  \/ \E c \in ClientIds : SetClientActive(c)
  \/ TokenRequest
  \/ ValidateClient
  \/ GenerateToken
  \/ \E a \in AuthReqs : OAuthMiddleware(a)
  \/ \E a \in AuthReqs : SelectToken(a)
  \/ \E a \in AuthReqs : UpdateLastUsed(a)
  \/ \E a \in AuthReqs : SchedulingWebhook(a)
  \/ Tick

\* ------------------------------------- CallIdStorage, midnight cleanup
\* Instants are hours since 1 January 00:00 UTC of the year; the server's
\* local time zone is UTC, so local and UTC fields of a Date agree.
Years == [jan1 : 0..6, leap : BOOLEAN]
\* days of the year before the first day of each month (0-indexed month)
DaysBefore(y, month) ==
  <<0, 31, 59, 90, 120, 151, 181, 212, 243, 273, 304, 334>>[month + 1]
    + (IF y.leap /\ month >= 2 THEN 1 ELSE 0)
\* first instant after the year
YearEnd(y) == 24 * (IF y.leap THEN 366 ELSE 365)
\* new Date(year, month, day) followed by setHours(hour, 0, 0, 0)
DateOf(y, month, day, hour) == 24 * (DaysBefore(y, month) + day - 1) + hour
\* Date.getDay(): 0 is Sunday
getDay(y, d) == (y.jan1 + (d \div 24)) % 7
\* Date.getUTCHours()
getUTCHours(d) == d % 24
\* no timeout is armed
NoTimer == -1

getNthSundayOfMonth(y, month, n) ==
  LET firstDay == DateOf(y, month, 1, 0)
      firstSunday == 1 + ((7 - getDay(y, firstDay)) % 7)
  IN  DateOf(y, month, firstSunday + (n - 1) * 7, 2)

getPSTOffset(y, d) ==
  LET marchSecondSunday == getNthSundayOfMonth(y, 2, 2)
      novemberFirstSunday == getNthSundayOfMonth(y, 10, 1)
  IN  IF d >= marchSecondSunday /\ d < novemberFirstSunday THEN 7 ELSE 8

getNextMidnightPST(y, d) ==
  LET pstOffset == getPSTOffset(y, d)
      \* midnightPST.setUTCHours(8 - pstOffset, 0, 0, 0)
      midnightPST == 24 * (d \div 24) + (8 - pstOffset)
  IN  IF d >= midnightPST THEN midnightPST + 24 ELSE midnightPST

\* the instants the module is loaded at: around both changes of the offset,
\* in mid winter, mid summer and on the last day of the year
LoadDays ==
  {<<0, 15>>, <<6, 1>>, <<11, 31>>}
    \cup {<<2, day>> : day \in 7..15} \cup {<<10, day>> : day \in 1..8}
LoadHours == {0, 1, 2, 3, 7, 8, 23}

\* the server runs with its cleanup timeout armed
InitCleanupArmed ==
  /\ year = [jan1 |-> 0, leap |-> FALSE]
  /\ date = 0
  /\ nextMidnight = getNextMidnightPST(year, date)
  /\ msUntilMidnight = nextMidnight - date
  /\ armed = 1

\* the module is being loaded: the constructor has not yet armed the timeout
InitCleanup ==
  /\ year \in Years
  /\ \E md \in LoadDays, hour \in LoadHours :
       date = DateOf(year, md[1], md[2], hour)
  /\ nextMidnight = NoTimer
  /\ msUntilMidnight = 0
  /\ armed = 0

\* scheduleNextCleanup: compute the next midnight and arm the timeout
ScheduleNextCleanup(d) == getNextMidnightPST(year, d)

\* msUntilMidnight = nextMidnight - new Date(): the clock is read a second
\* time, lag hours after getNextMidnightPST read it at instant d
MsUntilMidnight(d, lag) == ScheduleNextCleanup(d) - (d + lag)

\* the instant a timeout armed at instant d + lag fires at the earliest:
\* setTimeout runs a delay below one millisecond as soon as it can
TimeoutDue == IF msUntilMidnight > 0 THEN nextMidnight
                                     ELSE nextMidnight - msUntilMidnight

\* the pending timeouts once one has fired and its callback has run: a
\* setTimeout fires once, and the callback arms one more
ArmedAfterFiring_Repeating(n) == n + 1
ArmedAfterFiring(n) == (n - 1) + 1

\* the constructor calls setupMidnightCleanup
SetupMidnightCleanup ==
  /\ nextMidnight = NoTimer
  /\ nextMidnight' = ScheduleNextCleanup(date)
  /\ \E lag \in 0..MaxLag : msUntilMidnight' = MsUntilMidnight(date, lag)
  /\ armed' = armed + 1
  /\ UNCHANGED <<year, date, processedCallIds, resets>>
  /\ UNCHANGED notCleanup

\* callIdStorage.markAsProcessed(callId), called by the /call/update handler
MarkCall(i) ==
  /\ nextMidnight # NoTimer
  /\ ~hasBeenProcessed(i)
  /\ processedCallIds' = markAsProcessed(i)
  /\ UNCHANGED <<year, date, nextMidnight, msUntilMidnight, armed, resets>>
  /\ UNCHANGED notCleanup

\* the timeout fires, on time or late: clearAll, then scheduleNextCleanup
CleanupFires ==
  /\ armed > 0
  /\ \E late \in 0..1, lag \in 0..MaxLag :
       /\ TimeoutDue + late < YearEnd(year)
       /\ date' = TimeoutDue + late
       /\ nextMidnight' = ScheduleNextCleanup(TimeoutDue + late)
       /\ msUntilMidnight' = MsUntilMidnight(TimeoutDue + late, lag)
  /\ processedCallIds' = clearAll
  /\ armed' = ArmedAfterFiring(armed)
  /\ resets' = IF resets < MaxResets THEN resets + 1 ELSE resets
  /\ UNCHANGED year
  /\ UNCHANGED notCleanup

NextCleanup ==
  \/ SetupMidnightCleanup
  \/ \E i \in CallIds : MarkCall(i)
  \/ CleanupFires

\* --------------------- /call/update, step 4, as a function of the event
\* what custom_analysis_data.is_transfer_attempted can hold: the string
\* 'true', the boolean true, the boolean false, the string 'false', nothing
TransferValues == {"'true'", "true", "false", "'false'", "undefined"}
\* isTransferAttempted === "true" || isTransferAttempted === true
IsTransferAttempted(v) == v \in {"'true'", "true"}
Events ==
  [is_transfer_attempted : TransferValues,
   scheduled_callback_time : BOOLEAN,  \* a non-empty time is present
   patient_id : BOOLEAN,               \* a non-empty patient_id is present
   to_number : PhoneNumbers,
   from_number : PhoneNumbers]
\* no INSERT was sent
NoInsert == [agent_callback_number |-> NoAgent, status |-> "none"]
\* VALUES ($1, $2, $3, 'pending')
PendingRow(agentCallbackNumber) ==
  [agent_callback_number |-> agentCallbackNumber, status |-> "pending"]
IdleBranch ==
  [pc |-> "received", noteAttempted |-> FALSE, insert |-> NoInsert,
   stored |-> FALSE]

\* the server has handled no event yet
InitBranchIdle ==
  /\ event = [is_transfer_attempted |-> "undefined",
              scheduled_callback_time |-> FALSE, patient_id |-> FALSE,
              to_number |-> "+18330165712", from_number |-> "+18330165712"]
  /\ branch = IdleBranch

\* a processed event reaches step 4
InitBranch ==
  /\ event \in Events
  /\ branch = IdleBranch

\* lines 890-1002: the note for a transfer attempt, or the INSERT into
\* scheduled_callbacks, each of which may fail and is then only logged
TransferOrCallback ==
  /\ branch.pc = "received"
  /\ LET b == CallbackBranch(IsTransferAttempted(event.is_transfer_attempted),
                             event.scheduled_callback_time, event.patient_id,
                             event.to_number, event.from_number)
     IN  \E ok \in BOOLEAN :
           branch' =
             [pc |-> "done",
              noteAttempted |-> (b = "transfer"),
              insert |-> IF b = "callback"
                           THEN PendingRow(CallbackAgentNumber(
                                  event.to_number, event.from_number))
                           ELSE NoInsert,
              stored |-> (b = "callback" /\ ok)]
  /\ UNCHANGED event
  /\ UNCHANGED notBranch

\* the next event reaches step 4
NextEvent ==
  /\ branch.pc = "done"
  /\ event' \in Events
  /\ branch' = IdleBranch
  /\ UNCHANGED notBranch

NextBranch ==
  \/ TransferOrCallback
  \/ NextEvent

\* ---------------------------------------------------------- specifications
InitAll ==
  /\ InitCallUpdate
  /\ InitScheduler
  /\ InitOAuth
  /\ InitCleanupArmed
  /\ InitBranchIdle

SpecSched == InitAll /\ [][NextSched]_vars

SpecWebhook == InitAll /\ [][NextWebhook]_vars

SpecAuth == InitAll /\ [][NextAuth]_vars

InitLoad ==
  /\ InitCallUpdate
  /\ InitScheduler
  /\ InitOAuth
  /\ InitCleanup
  /\ InitBranchIdle

SpecCleanup == InitLoad /\ [][NextCleanup]_vars

InitStep4 ==
  /\ InitCallUpdate
  /\ InitScheduler
  /\ InitOAuth
  /\ InitCleanupArmed
  /\ InitBranch

SpecBranch == InitStep4 /\ [][NextBranch]_vars

\* ------------------------------------------------ claims on /call/update
RECURSIVE InsertsUpTo(_, _)
InsertsUpTo(i, e) ==
  IF e < 0 THEN 0 ELSE cbInserts[i][e] + InsertsUpTo(i, e - 1)

C2_DuplicateHasNoSideEffect ==
  \A r \in Reqs :
    req[r].dup =>
      /\ ~req[r].emailed
      /\ ~req[r].noted
      /\ req[r].wrote = {}
      /\ req[r].pc = "done" => req[r].msg = "Call already processed"

\* C3: an id is marked and rows are written only for a request whose
\* bearer token validateToken accepted.
C3_OnlyAcceptedRequestsProcessed ==
  \A r \in Reqs :
    (req[r].marked \/ req[r].wrote # {}) => req[r].accepted

\* tables of the rows of delivery r that are committed
CommittedOf(r) == {w.table : w \in {x \in committed : x.req = r}}

\* C4: once a delivery is answered, the rows it wrote are committed all
\* together or not at all.
C4_AllOrNothing ==
  \A r \in Reqs :
    req[r].pc = "done" =>
      CommittedOf(r) = {} \/ CommittedOf(r) = req[r].wrote

\* ------------------------------------------------ claims on the scheduler
\* the rows an invocation that has not returned still holds
Held == {i \in RowIds : \E k \in DOMAIN run :
                          \E j \in DOMAIN run[k].batch : run[k].batch[j] = i}

\* C5: a row is returned by at most one scan query, and its status changes
\* only from pending to completed or failed, so never again once terminal.
C5_ClaimedOnceSetOnce ==
  /\ [](\A i \in RowIds : claims[i] <= 1)
  /\ [][\A i \in RowIds :
          (/\ scheduled_callbacks[i].status # "absent"
           /\ scheduled_callbacks'[i].status # scheduled_callbacks[i].status)
          => /\ scheduled_callbacks[i].status = "pending"
             /\ scheduled_callbacks'[i].status \in {"completed", "failed"}]_vars

\* a start() or a timer firing happens in this step
Firing == intervalId' /\ (~intervalId \/ nextFire' # nextFire)

\* C6: at most one scan cycle runs at a time; a firing or start() while a
\* cycle runs sends no query and touches no row, and a cycle begins only in
\* the step of a firing, never later on behalf of a skipped one.
C6_OneCycleAtATime ==
  /\ [](Len(run) <= 1)
  /\ [][(Firing /\ run # <<>>)
          => /\ run' = run
             /\ scheduled_callbacks' = scheduled_callbacks
             /\ claims' = claims
             /\ placed' = placed]_vars
  /\ [][Len(run') > Len(run) => Firing /\ run = <<>>]_vars

\* a cycle is running and the timer was armed or has fired after the cycle's
\* window was computed: that firing or start() was skipped
C6_Witness ==
  /\ Len(run) = 1
  /\ run[1].pc = "row"
  /\ intervalId
  /\ nextFire > run[1].windowStart + TicksPerInterval

\* C7: every row a scan query returned is completed or failed once the
\* cycle no longer holds it.
C7_FailureNeverAbortsBatch ==
  \A i \in RowIds :
    (claims[i] >= 1 /\ i \notin Held) =>
      scheduled_callbacks[i].status \in {"completed", "failed"}

\* C8: a processed row is completed exactly if its call was placed, and a
\* failed row has an error message.
C8_CompletedIffPlaced ==
  \A i \in RowIds :
    /\ scheduled_callbacks[i].status = "completed" => placed[i]
    /\ scheduled_callbacks[i].status = "failed" =>
         ~placed[i] /\ scheduled_callbacks[i].error_message # ""

\* ------------------------------------------ claims on the OAuth middleware
\* C9: when a store operation of validateToken threw, validateToken returned
\* null, and the request never reaches the handler of the webhook.
C9_FailsClosed ==
  \A a \in AuthReqs :
    areq[a].threw # "no" =>
      /\ areq[a].tokenInfo = NoTokenInfo
      /\ areq[a].pc = "done"
      /\ ~areq[a].processed
      /\ areq[a].res \notin {200, 400, 500}

\* a request whose token was found valid and whose last_used_at update threw
C9_Witness ==
  \E a \in AuthReqs :
    /\ areq[a].threw = "update"
    /\ areq[a].pc = "done"
    /\ TokenRows(BearerToken(areq[a].header)) # {}

\* C10: a request during whose validation the token store failed is answered
\* 503 temporarily_unavailable, and a request refused for its token without
\* a store failure is answered 401.
C10_StoreFailureIs503 ==
  \A a \in AuthReqs :
    (areq[a].pc = "done" /\ areq[a].header # NoHeader
       /\ StartsWithBearer(areq[a].header)) =>
      /\ areq[a].threw # "no" =>
           areq[a].res = 503 /\ areq[a].error = "temporarily_unavailable"
      /\ (areq[a].threw = "no" /\ areq[a].tokenInfo \in {NoTokenInfo, "unset"}) =>
           areq[a].res = 401

\* C11: when the SELECT of validateToken found the token, existing and not
\* expired, and the update of last_used_at threw, validateToken returns the
\* client info.
C11_LastUsedBestEffort ==
  \A a \in AuthReqs :
    areq[a].threw = "update" => areq[a].tokenInfo = "redox"

\* the token of the request is in the table and its expires_at is reached
Expired(a) ==
  \E t \in TokenIds : /\ areq[a].header # NoHeader
                      /\ BearerToken(areq[a].header) = <<"uuid", t>>
                      /\ oauth_tokens[t].issued
                      /\ oauth_tokens[t].expires_at <= now

\* C12: a validation whose SELECT runs at or after the token's expires_at
\* returns null and the request is answered 401; the expires_at of an issued
\* token never changes and the token stays in the table, so an expired token
\* never validates again.
C12_NullOnceExpired ==
  /\ [][\A a \in AuthReqs :
          (areq[a].pc = "select" /\ areq'[a].pc # "select" /\ Expired(a))
          => /\ areq'[a].tokenInfo = NoTokenInfo
             /\ areq'[a].pc = "done"
             /\ areq'[a].res = 401]_vars
  /\ [][\A t \in TokenIds :
          oauth_tokens[t].issued
          => /\ oauth_tokens'[t].issued
             /\ oauth_tokens'[t].expires_at = oauth_tokens[t].expires_at]_vars

\* a token that validated before (its last_used_at was set) is refused
\* without a store failure once its expires_at is reached
C12_Witness ==
  \E a \in AuthReqs :
    /\ Expired(a)
    /\ \E t \in TokenIds : /\ BearerToken(areq[a].header) = <<"uuid", t>>
                           /\ oauth_tokens[t].last_used_at >= 1
                           /\ oauth_tokens[t].last_used_at < oauth_tokens[t].expires_at
    /\ areq[a].pc = "done"
    /\ areq[a].threw = "no"
    /\ areq[a].tokenInfo = NoTokenInfo
    /\ areq[a].res = 401

\* the step in which /oauth/token answers 200
Exchanged == treq.pc # "done" /\ treq'.pc = "done" /\ treq'.res = 200

\* C13: every exchange answered 200 inserts exactly one token that was not
\* in the table, with expires_at 24 hours after the instant generateToken
\* was called, and returns that token; every other row of oauth_tokens is
\* left as it was.
C13_FreshTokenPerExchange ==
  /\ [][Exchanged =>
          \E t \in TokenIds :
            /\ ~oauth_tokens[t].issued
            /\ oauth_tokens'[t].issued
            /\ oauth_tokens'[t].expires_at = treq.expiresAt
            /\ treq'.access_token = <<"uuid", t>>
            /\ \A u \in TokenIds \ {t} : oauth_tokens'[u] = oauth_tokens[u]]_vars
  /\ [][(treq.pc # "insert" /\ treq'.pc = "insert")
          => treq'.expiresAt = now + TokenLifetime]_vars

\* a second exchange has returned a token while the first one's is in the
\* table
C13_Witness ==
  /\ treq.pc = "done"
  /\ treq.res = 200
  /\ \E t \in TokenIds, u \in TokenIds :
       /\ t # u
       /\ treq.access_token = <<"uuid", t>>
       /\ oauth_tokens[t].issued
       /\ oauth_tokens[u].issued

\* the Authorization header carries the Bearer scheme and a UUID-shaped token
WellFormed(authHeader) ==
  /\ authHeader # NoHeader
  /\ StartsWithBearer(authHeader)
  /\ IsUUID(BearerToken(authHeader))

\* C14: the handler of /webhook/scheduling runs only for a request whose
\* token validateToken accepted; a request with a missing header, another
\* scheme, an empty or malformed token is answered 401 without a store
\* lookup, one with an unknown or expired token is answered 401 after the
\* lookup, and none of them is processed.
C14_HandlerOnlyAfterAccept ==
  /\ [](\A a \in AuthReqs :
          /\ (areq[a].pc = "handler" \/ areq[a].processed
                \/ areq[a].res \in {200, 400, 500})
             => areq[a].tokenInfo = "redox"
          /\ areq[a].pc \in {"select", "update", "handler"}
             => WellFormed(areq[a].header)
          /\ (areq[a].pc = "done" /\ ~WellFormed(areq[a].header))
             => areq[a].res = 401 /\ ~areq[a].processed)
  /\ [][\A a \in AuthReqs :
          (/\ areq[a].pc = "select"
           /\ areq'[a].pc # "select"
           /\ TokenRows(BearerToken(areq[a].header)) = {})
          => /\ areq'[a].pc = "done"
             /\ areq'[a].res = 401
             /\ ~areq'[a].processed]_vars

\* a request with the well-formed token of no row of the table was looked up
\* and answered 401
C14_Witness ==
  \E a \in AuthReqs :
    /\ WellFormed(areq[a].header)
    /\ \E t \in TokenIds : /\ BearerToken(areq[a].header) = <<"uuid", t>>
                           /\ ~oauth_tokens[t].issued
    /\ areq[a].pc = "done"
    /\ areq[a].threw = "no"
    /\ areq[a].res = 401

\* ------------------------------------------------ claims on CallIdStorage
\* C15: an id is found by hasBeenProcessed from the step that marks it, and
\* in every later state up to the next reset; right after a reset no id is
\* found.
C15_MarkedUntilReset ==
  /\ [][\A r \in Reqs :
          (~req[r].marked /\ req'[r].marked)
          => hasBeenProcessed(req[r].call_id)']_vars
  /\ [][\A i \in CallIds :
          (hasBeenProcessed(i) /\ resets' = resets) => hasBeenProcessed(i)']_vars
  /\ [][resets' # resets => \A i \in CallIds : ~hasBeenProcessed(i)']_vars

\* an id that a delivery marked is no longer found after the reset
C15_Witness ==
  \E r \in Reqs :
    /\ req[r].marked
    /\ resets = 1
    /\ ~hasBeenProcessed(req[r].call_id)

\* C16: the instant the armed cleanup timeout is due is 07:00 UTC when it
\* was computed (at the instant date) inside the range from the second Sunday of
\* March to the first Sunday of November, and 08:00 UTC outside that range.
C16_MidnightOfReferenceLocale ==
  nextMidnight # NoTimer =>
    getUTCHours(nextMidnight) = getPSTOffset(year, date)

\* the rows of the batch of an invocation
BatchOf(r) == {r.batch[j] : j \in DOMAIN r.batch}

\* C17: the batch a scan query returns holds exactly the pending rows whose
\* scheduled_time is at or after the instant the cycle started at and before
\* that instant plus the interval.
C17_WindowHalfOpen ==
  [][\A k \in DOMAIN run :
       (run[k].pc = "query" /\ k \in DOMAIN run' /\ run'[k].pc = "row")
       => BatchOf(run'[k]) =
            {i \in RowIds :
               /\ scheduled_callbacks[i].status = "pending"
               /\ run[k].windowStart <= scheduled_callbacks[i].scheduled_time
               /\ scheduled_callbacks[i].scheduled_time
                    < run[k].windowStart + TicksPerInterval}]_vars

\* a cycle holds a row scheduled at the instant the cycle started at, and not
\* the never claimed pending row scheduled one interval later
C17_Witness ==
  /\ Len(run) = 1
  /\ run[1].pc = "row"
  /\ \E i \in RowIds, j \in RowIds :
       /\ i \in BatchOf(run[1])
       /\ scheduled_callbacks[i].scheduled_time = run[1].windowStart
       /\ j \notin BatchOf(run[1])
       /\ claims[j] = 0
       /\ scheduled_callbacks[j].status = "pending"
       /\ scheduled_callbacks[j].scheduled_time
            = run[1].windowStart + TicksPerInterval

\* C18: whenever no cycle is running the guard is clear, whatever the
\* outcome of the cycles that ended, and a firing or start() that finds no
\* cycle running starts one.
C18_GuardReleased ==
  /\ [](run = <<>> => ~isProcessing)
  /\ [][(Firing /\ run = <<>>) => Len(run') = 1]_vars

\* a cycle ended by an exception that left its row pending, and the guard is
\* clear
C18_Witness ==
  /\ run = <<>>
  /\ ~isProcessing
  /\ \E i \in RowIds : /\ claims[i] >= 1
                       /\ scheduled_callbacks[i].status = "pending"

\* ------------------------------------------- claims on step 4 of the event
\* C19: for a processed event whose transfer was attempted, the note write
\* is attempted and no INSERT into scheduled_callbacks is sent, with or
\* without a callback time or a known agent number.
C19_TransferNotedNotScheduled ==
  (branch.pc = "done" /\ IsTransferAttempted(event.is_transfer_attempted))
  => /\ branch.noteAttempted
     /\ branch.insert = NoInsert
     /\ ~branch.stored

\* to_number or from_number is a known agent number
KnownAgent == event.to_number \in agentNumbers \/ event.from_number \in agentNumbers

\* to_number if it is a known agent number, from_number otherwise
Precedence ==
  IF event.to_number \in agentNumbers THEN event.to_number
  ELSE event.from_number

Answered(r) == req[r].pc # "done" /\ req'[r].pc = "done"

\* what C21 says of the mark and of the dedup check: a delivery that wrote
\* has marked its id first; the rollback of the catch block leaves the set
\* of marked ids as it is; a delivery whose BEGIN ran and whose id is marked
\* is refused by the dedup check; a refused delivery writes nothing
MarkSurvivesRollback ==
  /\ [](\A r \in Reqs : req[r].wrote # {} => req[r].marked)
  /\ [][\A r \in Reqs :
          (req[r].pc = "catchRollback" /\ Answered(r))
          => processedCallIds' = processedCallIds]_vars
  /\ [][\A r \in Reqs :
          (/\ req[r].pc = "begin"
           /\ req'[r].pc \notin {"begin", "catchRollback"}
           /\ req[r].call_id \in processedCallIds)
          => req'[r].pc = "dupRollback" /\ req'[r].dup]_vars
  /\ [](\A r \in Reqs :
          req[r].dup => /\ ~req[r].marked
                        /\ req[r].wrote = {}
                        /\ CommittedOf(r) = {})

\* C21: the id is marked before any write and the mark survives the
\* rollback, so every later delivery of the id before the next reset is
\* refused by the dedup check, writes nothing and is answered 'already
\* processed'.
C21_RefusedAndAnsweredAlreadyProcessed ==
  /\ MarkSurvivesRollback
  /\ [][\A r \in Reqs :
          (req[r].dup /\ Answered(r))
          => /\ req'[r].res = 200
             /\ req'[r].msg = "Call already processed"]_vars

\* C21 as the handler behaves: as above, and the refused delivery is
\* answered 'already processed' unless its own ROLLBACK fails, in which
\* case it is answered 500.
C21_RefusedUntilReset ==
  /\ MarkSurvivesRollback
  /\ [][\A r \in Reqs :
          (req[r].dup /\ Answered(r))
          => \/ /\ req'[r].res = 200
                /\ req'[r].msg = "Call already processed"
             \/ /\ req[r].pc = "catchRollback"
                /\ req'[r].res = 500]_vars

\* a delivery marked its id, was rolled back and answered 500; with no reset
\* since, a second delivery of the id was answered 'already processed', and
\* no row of the event is stored
C21_Witness ==
  \E r1 \in Reqs, r2 \in Reqs :
    /\ r1 # r2
    /\ resets = 0
    /\ req[r1].call_id = req[r2].call_id
    /\ req[r1].marked
    /\ req[r1].pc = "done"
    /\ req[r1].res = 500
    /\ req[r2].dup
    /\ req[r2].pc = "done"
    /\ req[r2].msg = "Call already processed"
    /\ CommittedOf(r1) = {}
    /\ CommittedOf(r2) = {}

\* delivery r has marked its id and an INSERT of it has failed: the one into
\* calls (the handler is in its catch block having written nothing), or the
\* one into scheduled_callbacks (the row was to be inserted and was not)
WriteFailed(r) ==
  /\ req[r].marked
  /\ \/ req[r].pc = "catchRollback" /\ "calls" \notin req[r].wrote
     \/ /\ req[r].pc \in {"commit", "catchRollback"}
        /\ req[r].cbAgent # NoAgent
        /\ "scheduled_callbacks" \notin req[r].wrote

\* C22: a delivery one of whose INSERTs failed is answered 500 and none of
\* its rows is committed.
C22_FailedWriteIs500 ==
  [][\A r \in Reqs :
       (WriteFailed(r) /\ Answered(r))
       => /\ req'[r].res = 500
          /\ {w \in committed' : w.req = r} = {}]_vars

\* ------------------------------------- claims on the scheduler, second part
\* row i is pending, no cycle holds it, its scheduled_time is past, and it
\* is before the window of every cycle that has not returned
Missed(i) ==
  /\ scheduled_callbacks[i].status = "pending"
  /\ i \notin Held
  /\ scheduled_callbacks[i].scheduled_time < now
  /\ \A k \in DOMAIN run :
       scheduled_callbacks[i].scheduled_time < run[k].windowStart

\* C23: a failed row is never changed, claimed or dialled again, and a
\* pending row whose scheduled_time is before the start of a scan is
\* selected neither by that scan nor by any later one: it stays pending.
C23_NeverRetried ==
  /\ [][\A i \in RowIds :
          scheduled_callbacks[i].status = "failed"
          => /\ scheduled_callbacks'[i] = scheduled_callbacks[i]
             /\ claims'[i] = claims[i]
             /\ placed'[i] = placed[i]]_vars
  /\ [][\A i \in RowIds :
          Missed(i) => Missed(i)' /\ claims'[i] = claims[i]]_vars

\* a scan that started after the scheduled_time of a never claimed pending
\* row is running, and another row has failed
C23_Witness ==
  \E i \in RowIds, j \in RowIds :
    /\ Missed(i)
    /\ claims[i] = 0
    /\ Len(run) = 1
    /\ scheduled_callbacks[j].status = "failed"

\* a step of a processCallbacks invocation that has not returned
CycleStep ==
  \E k \in DOMAIN run :
    \/ QueryReturns(k)
    \/ DispatchRow(k)
    \/ UpdateCompleted(k)
    \/ UpdateFailed(k)

TimeoutFires == armed > 0 /\ date' # date

\* C25, as stated: from construction on exactly one reset timer is armed at
\* any time, each firing clears the entire processed-id set and arms exactly
\* one next timer, resets keep recurring, and the delay handed to every
\* timer is strictly positive.
C25_DelayStrictlyPositive ==
  /\ [](armed = IF nextMidnight = NoTimer THEN 0 ELSE 1)
  /\ [][TimeoutFires => processedCallIds' = {} /\ armed' = 1]_vars
  /\ [](nextMidnight # NoTimer => msUntilMidnight > 0)

\* C25, amended: from construction on exactly one reset timer is armed at any
\* time; each firing clears the entire processed-id set and arms exactly one
\* next timer, for an instant strictly after the clock read the firing
\* computed it from; a timer that is armed can always fire, so resets recur
\* and never pile up.  The delay is that instant minus a second clock read.
C25_OneTimerRearmedForLaterInstant ==
  /\ [](armed = IF nextMidnight = NoTimer THEN 0 ELSE 1)
  /\ [][TimeoutFires => /\ processedCallIds' = {}
                        /\ armed' = 1
                        /\ nextMidnight' > date'
                        /\ msUntilMidnight' > -MaxLag]_vars
  /\ [][(nextMidnight = NoTimer /\ nextMidnight' # NoTimer)
          => nextMidnight' > date']_vars
  /\ []((armed > 0 /\ TimeoutDue + 1 < YearEnd(year)) => ENABLED CleanupFires)

\* a firing has cleared a set that held an id, and the timer is armed again
C25_Witness ==
  /\ resets > 0
  /\ processedCallIds = {}
  /\ armed = 1
  /\ nextMidnight > date
  /\ msUntilMidnight > 0

\* ---------------------------------------------------------------- C26
\* C26: a call_analyzed delivery whose call object or call_id is missing is
\* answered 400 at once and has caused no side effect: no email was sent, no
\* id was marked and no statement reached the database.
C26_ValidationErrorNoSideEffect ==
  \A r \in Reqs :
    (req[r].pc = "done" /\ req[r].call_id = NoCallId /\ req[r].res = 400)
      => ~req[r].emailed /\ ~req[r].marked /\ req[r].wrote = {}

\* ---------------------------------------------------------------- C27
\* the delivery has passed the dedup check and has not been answered yet
PastCheck(r) == req[r].marked /\ req[r].pc # "done"

\* C27: the dedup check and the dedup mark happen in one step, with no await
\* between them; so of the deliveries handled concurrently that carry the
\* same call id, with no reset in between, at most one passes the check and
\* goes on to the database writes.
C27_AtMostOnePastCheck ==
  /\ [][\A r \in Reqs :
          (~req[r].marked /\ req'[r].marked)
            => /\ ~hasBeenProcessed(req[r].call_id)
               /\ hasBeenProcessed(req[r].call_id)']_vars
  /\ [](\A r1, r2 \in Reqs :
          (/\ r1 # r2
           /\ PastCheck(r1) /\ PastCheck(r2)
           /\ req[r1].call_id = req[r2].call_id)
          => req[r1].epoch # req[r2].epoch)

\* two deliveries of one call id are in the handler together, no reset has
\* happened: one has passed the check, the other was refused
C27_Witness ==
  \E r1, r2 \in Reqs :
    /\ r1 # r2
    /\ resets = 0
    /\ req[r1].call_id = req[r2].call_id
    /\ PastCheck(r1) /\ req[r1].pc = "insCall"
    /\ req[r2].pc = "dupRollback" /\ req[r2].dup /\ ~req[r2].marked

\* ---------------------------------------------------------------- C28
\* C28: the agent numbers the webhook handler accepts when it inserts a
\* scheduled callback are exactly the numbers the scheduler has a call
\* profile for, so every row the handler inserts carries a number the
\* scheduler recognises and none fails with 'Unknown agent callback number'.
C28_InsertedAgentHasProfile ==
  /\ \A n \in PhoneNumbers :
       n \in agentNumbers <=> CallProfile(n) # "unknown"
  /\ branch.insert # NoInsert
       => CallProfile(branch.insert.agent_callback_number)
            \in {"scheduling", "intake"}

\* a row for the intake agent, taken from from_number, has been stored
C28_Witness ==
  /\ branch.stored
  /\ event.to_number \notin agentNumbers
  /\ branch.insert.agent_callback_number = event.from_number
  /\ CallProfile(branch.insert.agent_callback_number) = "intake"

\* ---------------------------------------------------------------- C29
\* start() ran once, and every firing since came exactly one interval after
\* the one before and entered a cycle
Tiled == firings.starts = 1 /\ firings.regular

\* the row's scheduled_time lies in the window that starts at instant w
TimeInWindow(i, w) ==
  /\ scheduled_callbacks[i].scheduled_time >= w
  /\ scheduled_callbacks[i].scheduled_time < w + TicksPerInterval

\* C29: while the scheduler keeps running, firings are exactly one interval
\* apart and none is skipped by the guard, the windows of consecutive scans
\* start one interval apart, so they tile the timeline; a pending row that is
\* stored when the scan whose window holds its scheduled_time gets its query
\* answered is selected by that scan, was selected by none before and is
\* selected by none after.  The rows of the window of a firing that the guard
\* skipped are selected by no cycle.
C29_WindowsTile ==
  /\ [](Tiled =>
          \E first \in Times, n \in 0..MaxTime :
            firings.scans = {first + m * TicksPerInterval : m \in 0..n})
  /\ [][\A k \in DOMAIN run, i \in RowIds :
          (/\ Tiled
           /\ run[k].pc = "query" /\ k \in DOMAIN run' /\ run'[k].pc = "row"
           /\ scheduled_callbacks[i].status = "pending"
           /\ TimeInWindow(i, run[k].windowStart))
          => claims[i] = 0 /\ claims'[i] = 1]_vars
  /\ [](Tiled => \A i \in RowIds : claims[i] <= 1)
  /\ [](firings.starts = 1 =>
          \A f \in firings.skipped, i \in RowIds :
            (scheduled_callbacks[i].status # "absent" /\ TimeInWindow(i, f))
              => claims[i] = 0)

\* two scans one interval apart have each selected the row of their window
C29_Witness ==
  /\ Tiled
  /\ \E w \in Times :
       /\ firings.scans = {w, w + TicksPerInterval}
       /\ \E i, j \in RowIds :
            /\ TimeInWindow(i, w) /\ claims[i] = 1
            /\ TimeInWindow(j, w + TicksPerInterval) /\ claims[j] = 1

\* ---------------------------------------------------------------- C30
\* the request carries an issued token that has not expired
Live(a) ==
  \E t \in TokenIds : /\ areq[a].header # NoHeader
                      /\ BearerToken(areq[a].header) = <<"uuid", t>>
                      /\ oauth_tokens[t].issued
                      /\ oauth_tokens[t].expires_at > now

\* C30: a token is issued only to a client that validateClient found active
\* with a matching secret hash; a validation whose SELECT is answered finds
\* the row of every issued token that has not expired, whether its client is
\* active or not, and finds none for any other token, so an issued token
\* keeps validating after its client is set inactive, until it expires.
C30_ValidationIgnoresIsActive ==
  /\ [][(treq.pc = "validateClient" /\ treq'.pc = "insert")
          => \E c \in ClientIds :
               /\ c = treq.client_id
               /\ oauth_clients[c].client_secret_hash
                    = Sha256(treq.client_secret)
               /\ oauth_clients[c].is_active]_vars
  /\ [][\A a \in AuthReqs :
          (/\ areq[a].pc = "select" /\ areq'[a].pc # "select"
           /\ areq'[a].threw # "select")
          => (Live(a) <=> areq'[a].pc = "update" /\ areq'[a].row = "redox")]_vars

\* the SELECT has found the row of a live token while its client is inactive
\* and no token could be issued
C30_Witness ==
  \E a \in AuthReqs :
    /\ Live(a)
    /\ areq[a].pc = "update"
    /\ areq[a].row = "redox"
    /\ \A c \in ClientIds : ~oauth_clients[c].is_active
    /\ treq.pc = "done" /\ treq.res = 401 /\ treq.error = "invalid_client"

=============================================================================
